---- MODULE Spec2Model ----
(***************************************************************************)
(* A model of src/utils.py of sokoban_rl:                                  *)
(*   - AsyncEnvGen, the background process that pre-resets environments;   *)
(*   - get_tiles / is_valid_command and EnvWrapper.step;                   *)
(*   - the discretization tables EnvWrapper.__init__ builds.               *)
(* Environments of the pool are identified by their index in self.envs:    *)
(* the queue carries (state, env) pairs, modelled by the env's index.      *)
(***************************************************************************)
EXTENDS Integers, Sequences, FiniteSets, TLC

(* ------------------------------ bounds --------------------------------- *)
\* largest pool size len(envs) explored
MaxEnvs == 3
\* the model's cap on the length of a queue that the program leaves unbounded
MaxQueue == 3
\* number of get_reset_env() calls the consumer makes at most
MaxCalls == 4

(* --------------------------- program constants ------------------------- *)
\* multiprocessing's SEM_VALUE_MAX: mp.Queue(maxsize <= 0) gets this maxsize
SEM_VALUE_MAX == 2147483647

\* no environment handed out yet
NoEnv == 0 - 1

VARIABLES
  \* ---- AsyncEnvGen ----
  len_envs,        \* len(self.envs)
  q,               \* self.q: sequence of env indices, head is the oldest
  kill_set,        \* self._kill (mp.Event)
  env_idx,         \* self.env_idx, the worker process's copy
  sleep_interval,  \* self.sleep_interval
  wpc,             \* where the worker process is in run()
  cpc,             \* where the consumer is in get_reset_env()
  held,            \* env returned by the consumer's latest get_reset_env()
  via,             \* path that returned it: "none", "queue", "fallback"
  served,          \* number of calls served from the queue so far
  calls,           \* number of get_reset_env() calls begun so far
  kill_running     \* kill() has been called while the worker was alive

pool_vars == <<len_envs, q, kill_set, env_idx, sleep_interval, wpc, cpc, held,
               via, served, calls, kill_running>>

VARIABLES
  \* ---- EnvWrapper and its environment ----
  env_kind,        \* "sokoban" (gym_sokoban) or "lander" (Box2D)
  action_type,     \* self.action_type
  cone_trick,      \* self.cone_trick
  move_trick,      \* self.move_trick
  room,            \* self.env.room_state
  room_fixed,      \* the env's room_fixed: floor / target under boxes and player
  player_position, \* self.env.player_position, <<row, column>>
  spc,             \* "ready", "stepped"
  action_in,       \* the action step() was called with
  env_action,      \* the action handed to self.env.step
  obs,             \* <<x, y>> of the observation, in hundredths
  env_reward,      \* reward returned by self.env.step
  env_done,        \* done returned by self.env.step
  reward,          \* reward returned by step()
  done,            \* done returned by step()
  raised,          \* step() raised instead of returning
  is_valid         \* is_valid_command's verdict in step(), "n/a" if not asked

step_vars == <<env_kind, action_type, cone_trick, move_trick, room, room_fixed,
               player_position, spc, action_in, env_action, obs, env_reward,
               env_done, reward, done, raised, is_valid>>

VARIABLES
  \* ---- EnvWrapper.__init__ in DISCRETIZIED mode, process_action ----
  env_name,              \* self.env_name: "LunarLanderContinuous-v2" or another
  num_discrete,          \* kwargs['num_discrete']
  low,                   \* self.env.action_space.low[0]
  high,                  \* self.env.action_space.high[0]
  denom,                 \* common denominator of the tables' entries
  discrete_array,        \* self.discrete_array, numerators over denom
  split_discrete_array,  \* self.split_discrete_array, numerators over denom
  dpc,                   \* "new", "built", "failed" (constructor raised)
  action_idx,            \* the indices process_action sampled
  index_error            \* process_action raised IndexError

disc_vars == <<env_name, num_discrete, low, high, denom, discrete_array,
               split_discrete_array, dpc, action_idx, index_error>>

vars == <<pool_vars, step_vars, disc_vars>>

\* the wrapper is not part of this run
StepIdle ==
  /\ env_kind = "none"
  /\ action_type = "REGULAR"
  /\ cone_trick = FALSE
  /\ move_trick = FALSE
  /\ room = <<>>
  /\ room_fixed = <<>>
  /\ player_position = <<1, 1>>
  /\ spc = "idle"
  /\ action_in = 0
  /\ env_action = 0
  /\ obs = <<0, 0>>
  /\ env_reward = 0
  /\ env_done = FALSE
  /\ reward = 0
  /\ done = FALSE
  /\ raised = FALSE
  /\ is_valid = "n/a"

\* no wrapper is being constructed in this run
DiscIdle ==
  /\ num_discrete = 0
  /\ low = 0
  /\ high = 0
  /\ denom = 1
  /\ discrete_array = <<>>
  /\ split_discrete_array = <<>>
  /\ dpc = "idle"
  /\ env_name = "none"
  /\ action_idx = <<0, 0>>
  /\ index_error = FALSE

\* no pool is part of this run
PoolIdle ==
  /\ len_envs = 0
  /\ q = <<>>
  /\ kill_set = FALSE
  /\ env_idx = 0
  /\ sleep_interval = 0
  /\ wpc = "idle"
  /\ cpc = "none"
  /\ held = NoEnv
  /\ via = "none"
  /\ served = 0
  /\ calls = 0
  /\ kill_running = FALSE

(* ------------------------------ AsyncEnvGen ---------------------------- *)

\* mp.Queue(len(self.envs) - 1): a maxsize <= 0 means SEM_VALUE_MAX
QueueMaxsize(n) == IF n - 1 <= 0 THEN SEM_VALUE_MAX ELSE n - 1

\* self.q.full(); a queue the program leaves unbounded is cut at MaxQueue
QFull == Len(q) >= (IF QueueMaxsize(len_envs) > MaxQueue THEN MaxQueue
                    ELSE QueueMaxsize(len_envs))

\* (mutant) is_alive() that forgets that the process has exited
IsAliveOnceStarted == wpc # "new"

\* mp.Process.is_alive(): started and not yet exited
IsAlive == wpc \notin {"new", "dead"}

\* the env get_reset_env() resets itself when the worker is not alive
FallbackEnv == 0

PoolInit ==
  /\ len_envs \in 1..MaxEnvs
  /\ q = <<>>
  /\ kill_set = FALSE
  /\ env_idx = 0
  /\ sleep_interval \in {0, 1}
  /\ wpc = "new"
  /\ cpc = "idle"
  /\ held = NoEnv
  /\ via = "none"
  /\ served = 0
  /\ calls = 0
  /\ kill_running = FALSE

\* mp.Process.start(): the worker process begins run()
Start ==
  /\ wpc = "new"
  /\ wpc' = "while"
  /\ UNCHANGED <<len_envs, q, kill_set, env_idx, sleep_interval, cpc, held,
                 via, served, calls, kill_running>>
  /\ UNCHANGED <<step_vars, disc_vars>>

\* line 315: while not self._kill.is_set()
WhileCheck ==
  /\ wpc = "while"
  /\ wpc' = IF kill_set THEN "close" ELSE "if_full"
  /\ UNCHANGED <<len_envs, q, kill_set, env_idx, sleep_interval, cpc, held,
                 via, served, calls, kill_running>>
  /\ UNCHANGED <<step_vars, disc_vars>>

\* lines 316, 322: if not self.q.full() ... elif self.sleep_interval != 0
FullCheck ==
  /\ wpc = "if_full"
  /\ wpc' = IF ~QFull THEN "reset"
            ELSE IF sleep_interval # 0 THEN "sleep" ELSE "while"
  /\ UNCHANGED <<len_envs, q, kill_set, env_idx, sleep_interval, cpc, held,
                 via, served, calls, kill_running>>
  /\ UNCHANGED <<step_vars, disc_vars>>

\* line 317: state = self.envs[self.env_idx].reset()
WorkerReset ==
  /\ wpc = "reset"
  /\ wpc' = "put"
  /\ UNCHANGED <<len_envs, q, kill_set, env_idx, sleep_interval, cpc, held,
                 via, served, calls, kill_running>>
  /\ UNCHANGED <<step_vars, disc_vars>>

\* line 318: self.q.put((state, self.envs[self.env_idx])), blocking while full
WorkerPut ==
  /\ wpc = "put"
  /\ Len(q) < QueueMaxsize(len_envs)
  /\ q' = Append(q, env_idx)
  /\ wpc' = "advance"
  /\ UNCHANGED <<len_envs, kill_set, env_idx, sleep_interval, cpc, held,
                 via, served, calls, kill_running>>
  /\ UNCHANGED <<step_vars, disc_vars>>

\* (mutant) the index advances without wrapping at len(self.envs) - 1
NextIdxWrapLate(i) == IF i = len_envs THEN 0 ELSE i + 1

\* lines 319-321: self.env_idx += 1, wrapping at len(self.envs)
NextIdx(i) == IF i + 1 = len_envs THEN 0 ELSE i + 1

WorkerAdvance ==
  /\ wpc = "advance"
  /\ env_idx' = NextIdx(env_idx)
  /\ wpc' = "while"
  /\ UNCHANGED <<len_envs, q, kill_set, sleep_interval, cpc, held,
                 via, served, calls, kill_running>>
  /\ UNCHANGED <<step_vars, disc_vars>>

\* line 323: time.sleep(self.sleep_interval)
WorkerSleep ==
  /\ wpc = "sleep"
  /\ wpc' = "while"
  /\ UNCHANGED <<len_envs, q, kill_set, env_idx, sleep_interval, cpc, held,
                 via, served, calls, kill_running>>
  /\ UNCHANGED <<step_vars, disc_vars>>

\* lines 324-325: self.q.close(); self.q.cancel_join_thread(); run() returns
WorkerClose ==
  /\ wpc = "close"
  /\ wpc' = "dead"
  /\ UNCHANGED <<len_envs, q, kill_set, env_idx, sleep_interval, cpc, held,
                 via, served, calls, kill_running>>
  /\ UNCHANGED <<step_vars, disc_vars>>

\* the steps of run()
Worker ==
  \/ WhileCheck
  \/ FullCheck
  \/ WorkerReset
  \/ WorkerPut
  \/ WorkerAdvance
  \/ WorkerSleep
  \/ WorkerClose

\* line 328: if self.is_alive()
GetResetEnv ==
  /\ cpc = "idle"
  /\ calls < MaxCalls
  /\ calls' = calls + 1
  /\ cpc' = IF IsAlive THEN "get" ELSE "fallback"
  /\ UNCHANGED <<len_envs, q, kill_set, env_idx, sleep_interval, wpc, held,
                 via, served, kill_running>>
  /\ UNCHANGED <<step_vars, disc_vars>>

\* line 329: return self.q.get(), blocking while the queue is empty
QueueGet ==
  /\ cpc = "get"
  /\ q # <<>>
  /\ held' = Head(q)
  /\ q' = Tail(q)
  /\ via' = "queue"
  /\ served' = served + 1
  /\ cpc' = "idle"
  /\ UNCHANGED <<len_envs, kill_set, env_idx, sleep_interval, wpc, calls,
                 kill_running>>
  /\ UNCHANGED <<step_vars, disc_vars>>

\* lines 331-332: state = self.envs[0].reset(); return state, self.envs[0]
FallbackReset ==
  /\ cpc = "fallback"
  /\ held' = FallbackEnv
  /\ via' = "fallback"
  /\ cpc' = "idle"
  /\ UNCHANGED <<len_envs, q, kill_set, env_idx, sleep_interval, wpc, served,
                 calls, kill_running>>
  /\ UNCHANGED <<step_vars, disc_vars>>

\* lines 334-335: self._kill.set()
Kill ==
  /\ kill_set' = TRUE
  /\ kill_running' = (kill_running \/ IsAlive)
  /\ UNCHANGED <<len_envs, q, env_idx, sleep_interval, wpc, cpc, held, via,
                 served, calls>>
  /\ UNCHANGED <<step_vars, disc_vars>>

Init ==
  /\ PoolInit
  /\ StepIdle
  /\ DiscIdle

Next ==
  \/ Start
  \/ Worker
  \/ GetResetEnv
  \/ QueueGet
  \/ FallbackReset
  \/ Kill

Spec == Init /\ [][Next]_vars

\* the worker process is scheduled fairly, and a blocked or running call of the
\* consumer goes on when it can
LiveSpec ==
  /\ Init
  /\ [][Next]_vars
  /\ WF_vars(Worker)
  /\ WF_vars(QueueGet)
  /\ WF_vars(FallbackReset)

(* ------------------------- claims: AsyncEnvGen ------------------------- *)

\* C1 (as claimed): the environment the consumer took from the queue with its
\* latest get_reset_env() is not being reset by the worker and is not in the
\* queue, for every pool size >= 1.
C1_ExclusiveHandOff ==
  via = "queue" =>
    /\ ~(wpc = "reset" /\ env_idx = held)
    /\ \A i \in 1..Len(q) : q[i] # held

\* a call begins: the consumer leaves "idle"
CallBegins == cpc = "idle" /\ cpc' # "idle"

\* the fallback path returns envs[0], reset by the caller, and leaves the queue
FallbackReturnsEnv0 ==
  (cpc = "fallback" /\ cpc' = "idle") =>
    (held' = 0 /\ via' = "fallback" /\ q' = q)

\* C2 (as claimed): every get_reset_env() call that begins after kill() was
\* called on a running pool takes the fallback path and returns envs[0], in
\* every interleaving with the worker.
C2_AfterKillFallback ==
  [][ /\ (CallBegins /\ kill_running) => cpc' = "fallback"
      /\ FallbackReturnsEnv0 ]_vars

\* C2 (amended): a get_reset_env() call that begins after kill() was called on
\* a running pool and after the worker process has exited takes the fallback
\* path and returns envs[0], reset by the caller, leaving the queue as it is;
\* a call that begins while the worker process is still alive takes the queue
\* path, also after kill().
C2_AfterExitFallback ==
  [][ /\ (CallBegins /\ kill_running /\ wpc = "dead") => cpc' = "fallback"
      /\ (CallBegins /\ wpc \notin {"new", "dead"}) => cpc' = "get"
      /\ FallbackReturnsEnv0 ]_vars

\* C2 witness: after calls served from the queue, kill() and the worker's exit,
\* the latest call returned envs[0] by the fallback path with a slot still queued
C2_Witness ==
  /\ kill_running
  /\ wpc = "dead"
  /\ served >= 1
  /\ cpc = "idle"
  /\ via = "fallback"
  /\ held = 0
  /\ q # <<>>

\* C3 (as claimed): every get_reset_env() call eventually returns, under fair
\* scheduling of the worker, whenever kill() is called.
C3_EveryCallReturns == (cpc # "idle") ~> (cpc = "idle")

\* C4: the k-th call served from the queue returns envs[(k-1) mod N], and the
\* queue holds the following environments in round-robin order, each put there
\* by the worker after its reset; so consecutive calls served from the queue
\* return envs[0] then envs[1] for a pool of 3.
C4_RoundRobin ==
  /\ via = "queue" => held = (served - 1) % len_envs
  /\ \A i \in 1..Len(q) : q[i] = (served + i - 1) % len_envs
  /\ wpc \in {"reset", "put"} => env_idx = (served + Len(q)) % len_envs

\* C4 witness: in a pool of 3 the second call served from the queue has returned
\* envs[1] while the worker has already enqueued envs[2] and envs[0] again
C4_Witness ==
  /\ len_envs = 3
  /\ via = "queue"
  /\ served = 2
  /\ held = 1
  /\ q = <<2, 0>>

\* C10 (as claimed): once kill() has set the stop signal on a running worker,
\* the worker eventually stops, and the queue never holds more than
\* len(envs) - 1 slots.
C10_WorkerStops ==
  /\ (kill_set /\ wpc \notin {"new", "dead"}) ~> (wpc = "dead")
  /\ [](Len(q) <= len_envs - 1)

(* ------------------- enumerations of src/utils.py ---------------------- *)
\* class MoveType
PUSH_UP == 1
PUSH_DOWN == 2
PUSH_LEFT == 3
PUSH_RIGHT == 4
PULL_UP == 9
PULL_DOWN == 10
PULL_LEFT == 11
PULL_RIGHT == 12

\* the values MoveType(action) accepts; any other raises ValueError
MoveType == {PUSH_UP, PUSH_DOWN, PUSH_LEFT, PUSH_RIGHT,
             PULL_UP, PULL_DOWN, PULL_LEFT, PULL_RIGHT}

\* class TileType
WALL == 0
FLOOR == 1
TARGET == 2
BOX_ON_TARGET == 3
BOX == 4
PLAYER == 5

PULL_MOVES == {PULL_UP, PULL_DOWN, PULL_LEFT, PULL_RIGHT}
BOX_TILES == {BOX, BOX_ON_TARGET}

\* reward -= 300
Penalty == 300

(* ----------------------- get_tiles, is_valid_command ------------------- *)

\* (mutant) get_tiles returning the two tiles in the other order
get_tiles_swapped(rm, player_pos, move) ==
  LET dy == IF move = PUSH_UP \/ move = PULL_UP THEN 0 - 1
            ELSE IF move = PUSH_DOWN \/ move = PULL_DOWN THEN 1
            ELSE 0
      dx == IF move = PUSH_UP \/ move = PULL_UP THEN 0
            ELSE IF move = PUSH_DOWN \/ move = PULL_DOWN THEN 0
            ELSE IF move = PUSH_LEFT \/ move = PULL_LEFT THEN 0 - 1
            ELSE IF move = PUSH_RIGHT \/ move = PULL_RIGHT THEN 1
            ELSE 0
  IN  << rm[player_pos[1] - dy][player_pos[2] - dx],
         rm[player_pos[1] + dy][player_pos[2] + dx] >>

\* get_tiles(room, player_pos, move): <<tile_after, tile_before>>
get_tiles(rm, player_pos, move) ==
  LET dy == IF move = PUSH_UP \/ move = PULL_UP THEN 0 - 1
            ELSE IF move = PUSH_DOWN \/ move = PULL_DOWN THEN 1
            ELSE 0
      dx == IF move = PUSH_UP \/ move = PULL_UP THEN 0
            ELSE IF move = PUSH_DOWN \/ move = PULL_DOWN THEN 0
            ELSE IF move = PUSH_LEFT \/ move = PULL_LEFT THEN 0 - 1
            ELSE IF move = PUSH_RIGHT \/ move = PULL_RIGHT THEN 1
            ELSE 0
  IN  << rm[player_pos[1] + dy][player_pos[2] + dx],
         rm[player_pos[1] - dy][player_pos[2] - dx] >>

\* is_valid_command(room, player_pos, move)
is_valid_command(rm, player_pos, move) ==
  LET tiles == get_tiles(rm, player_pos, move)
      tile_after == tiles[1]
      tile_before == tiles[2]
      v1 == IF tile_after = WALL THEN FALSE ELSE TRUE
      v2 == IF (move \in PULL_MOVES) /\ (tile_before \notin BOX_TILES)
            THEN FALSE ELSE v1
  IN  v2

(* --------------------- the environment behind the wrapper -------------- *)
\* The wrapper's environment is gym_sokoban's push-and-pull Sokoban (13
\* actions: 0 no-op, 1-4 push, 5-8 move, 9-12 pull) or a Box2D lander.  Its
\* step is the library's; what it does to room_state and player_position is
\* written out here because step() reads both after calling it.

\* rooms' number of objects (walls, targets, boxes) inside the border
MaxObjects == 1

\* a room is a sequence of rows, each a sequence of tiles: the numpy array
\* room_state[row, column] with both indices counted from 1
Rows == 1..5
Cols == 1..6
Cells == Rows \X Cols
Interior == {c \in Cells : c[1] \in 2..4 /\ c[2] \in 2..5}

At(rm, c) == rm[c[1]][c[2]]

\* gym_sokoban CHANGE_COORDINATES[(action - 1) % 4]: up, down, left, right
Change(a) ==
  LET k == (a - 1) % 4
  IN  IF k = 0 THEN <<0 - 1, 0>>
      ELSE IF k = 1 THEN <<1, 0>>
      ELSE IF k = 2 THEN <<0, 0 - 1>>
      ELSE <<0, 1>>

Plus(c, d) == <<c[1] + d[1], c[2] + d[2]>>
Minus(c, d) == <<c[1] - d[1], c[2] - d[2]>>

\* the player walks from pos to new
MovePlayer(rm, fixed, pos, new) ==
  [rm EXCEPT ![new[1]][new[2]] = PLAYER, ![pos[1]][pos[2]] = At(fixed, pos)]

\* gym_sokoban _move
EnvMove(rm, fixed, pos, a) ==
  LET new == Plus(pos, Change(a))
  IN  IF At(rm, new) \in {FLOOR, TARGET}
      THEN [room |-> MovePlayer(rm, fixed, pos, new), pos |-> new]
      ELSE [room |-> rm, pos |-> pos]

\* gym_sokoban _push
EnvPush(rm, fixed, pos, a) ==
  LET new == Plus(pos, Change(a))
      box_new == Plus(new, Change(a))
  IN  IF box_new \notin Cells THEN [room |-> rm, pos |-> pos]
      ELSE IF At(rm, new) \in BOX_TILES /\ At(rm, box_new) \in {FLOOR, TARGET}
      THEN [room |-> [MovePlayer(rm, fixed, pos, new) EXCEPT
                        ![box_new[1]][box_new[2]] =
                           IF At(fixed, box_new) = TARGET
                           THEN BOX_ON_TARGET ELSE BOX],
            pos |-> new]
      ELSE EnvMove(rm, fixed, pos, a)

\* gym_sokoban _pull
EnvPull(rm, fixed, pos, a) ==
  LET new == Plus(pos, Change(a))
      behind == Minus(pos, Change(a))
  IN  IF At(rm, new) \in {FLOOR, TARGET}
      THEN IF At(rm, behind) \in BOX_TILES
           THEN [room |-> [MovePlayer(rm, fixed, pos, new) EXCEPT
                             ![pos[1]][pos[2]] =
                                IF At(fixed, pos) = TARGET
                                THEN BOX_ON_TARGET ELSE BOX,
                             ![behind[1]][behind[2]] = At(fixed, behind)],
                 pos |-> new]
           ELSE [room |-> MovePlayer(rm, fixed, pos, new), pos |-> new]
      ELSE [room |-> rm, pos |-> pos]

\* self.env.step(action): the room and player position it leaves
EnvStep(kind, rm, fixed, pos, a) ==
  IF kind # "sokoban" \/ a = 0 THEN [room |-> rm, pos |-> pos]
  ELSE IF a < 5 THEN EnvPush(rm, fixed, pos, a)
  ELSE IF a < 9 THEN EnvMove(rm, fixed, pos, a)
  ELSE EnvPull(rm, fixed, pos, a)

\* a room: wall border, floor inside, the player at p, objects as placed by f
MakeRoom(p, f) ==
  [r \in Rows |-> [c \in Cols |->
     IF <<r, c>> = p THEN PLAYER
     ELSE IF <<r, c>> \in DOMAIN f THEN f[<<r, c>>]
     ELSE IF <<r, c>> \in Interior THEN FLOOR
     ELSE WALL]]

\* room_fixed of a room: what is under the boxes and the player
FixedOf(rm) ==
  [r \in Rows |-> [c \in Cols |->
     IF rm[r][c] = WALL THEN WALL
     ELSE IF rm[r][c] \in {TARGET, BOX_ON_TARGET} THEN TARGET
     ELSE FLOOR]]

Placements(p) ==
  UNION { [S -> {WALL, TARGET, BOX_ON_TARGET, BOX}] :
          S \in {T \in SUBSET (Interior \ {p}) : Cardinality(T) <= MaxObjects} }

\* observations (x, y) of the lander in hundredths: (0.1, 0.4), (0.05, 0.4),
\* (0.5, 0.4), (-0.5, 0.4), (0.5, 0.3), (0.4, 0.4), (0.5, -0.2)
ObsSamples == { <<10, 40>>, <<5, 40>>, <<50, 40>>, <<0 - 50, 40>>, <<50, 30>>,
                <<40, 40>>, <<50, 0 - 20>> }

\* rewards the environment returns
EnvRewards == {0 - 1, 10}

\* what self.env.step returns as (reward, done): Sokoban's per-step reward
\* while the episode runs or its final reward with done; any pair for a lander
EnvOutcomes(kind) ==
  IF kind = "sokoban" THEN { <<0 - 1, FALSE>>, <<10, TRUE>> }
  ELSE EnvRewards \X BOOLEAN

(* ------------------------------ EnvWrapper.step ------------------------ *)

\* (mutant) PUSH_PULL encoding that skips the band one index too late
EncodeActionSkipLate(atype, action) ==
  IF atype = "PUSH_ONLY" THEN action + 1
  ELSE IF atype = "PUSH_PULL"
       THEN IF action + 1 > 5 THEN action + 1 + 4 ELSE action + 1
  ELSE action

\* lines 201-214: the action handed to self.env.step
EncodeAction(atype, action) ==
  IF atype = "REGULAR" THEN action
  ELSE IF atype = "PUSH_ONLY" THEN action + 1
  ELSE IF atype = "PUSH_PULL"
       THEN IF action + 1 >= 5 THEN action + 1 + 4 ELSE action + 1
  ELSE action

Abs(x) == IF x < 0 THEN 0 - x ELSE x

\* (mutant) the angle measured from the vertical: atan2(abs(x_pos), y_pos)
AlphaBelowQuarterPiFromVertical(x_pos, y_pos) ==
  \/ Abs(x_pos) < y_pos
  \/ (Abs(x_pos) = 0 /\ y_pos = 0)

\* line 220-221: math.atan2(y_pos, abs(x_pos)) < math.pi / 4.  With a second
\* argument >= 0 the angle is in [-pi/2, pi/2] and is below pi/4 exactly when
\* y_pos < abs(x_pos), and at the origin, where atan2 is 0.
AlphaBelowQuarterPi(x_pos, y_pos) ==
  \/ y_pos < Abs(x_pos)
  \/ (y_pos = 0 /\ Abs(x_pos) = 0)

\* line 221: (alpha < math.pi / 4) and (y_pos > 1/3), y_pos in hundredths
ConeTriggers(x_pos, y_pos) ==
  AlphaBelowQuarterPi(x_pos, y_pos) /\ 3 * y_pos > 100

\* the actions a policy with self.num_actions outputs may pass to step()
ActionInputs(kind, atype) ==
  IF atype = "PUSH_ONLY" THEN 0..3
  ELSE IF atype = "PUSH_PULL" THEN 0..7
  ELSE IF atype = "REGULAR" /\ kind = "sokoban" THEN 0..12
  ELSE IF atype = "REGULAR" THEN 0..3
  ELSE 0..1

\* EnvWrapper.__init__ around a freshly made environment
StepInit ==
  /\ \/ /\ env_kind = "sokoban"
        /\ action_type \in {"REGULAR", "PUSH_ONLY", "PUSH_PULL"}
        /\ cone_trick = FALSE
        /\ move_trick \in BOOLEAN
        /\ \E p \in Interior : \E f \in Placements(p) :
             /\ player_position = p
             /\ room = MakeRoom(p, f)
             /\ room_fixed = FixedOf(MakeRoom(p, f))
     \/ /\ env_kind = "lander"
        /\ action_type \in {"REGULAR", "GAUSSIAN", "DISCRETIZIED"}
        /\ cone_trick \in BOOLEAN
        /\ move_trick = FALSE
        /\ player_position = <<1, 1>>
        /\ room = <<>>
        /\ room_fixed = <<>>
  /\ spc = "ready"
  /\ action_in = 0
  /\ env_action = 0
  /\ obs = <<0, 0>>
  /\ env_reward = 0
  /\ env_done = FALSE
  /\ reward = 0
  /\ done = FALSE
  /\ raised = FALSE
  /\ is_valid = "n/a"

\* EnvWrapper.step(action), lines 200-231
Step ==
  /\ spc = "ready"
  /\ \E a \in ActionInputs(env_kind, action_type) :
     \E o \in (IF env_kind = "lander" THEN ObsSamples ELSE {<<0, 0>>}) :
     \E rd \in EnvOutcomes(env_kind) :
       LET r == rd[1]
           d == rd[2]
           action == EncodeAction(action_type, a)
           post == EnvStep(env_kind, room, room_fixed, player_position, action)
           cone == cone_trick /\ ConeTriggers(o[1], o[2])
           r1 == IF cone THEN r - Penalty ELSE r
           d1 == IF cone THEN TRUE ELSE d
       IN  /\ action_in' = a
           /\ env_action' = action
           /\ room' = post.room
           /\ player_position' = post.pos
           /\ obs' = o
           /\ env_reward' = r
           /\ env_done' = d
           /\ IF move_trick /\ action \notin MoveType
              THEN \* MoveType(action) raises ValueError
                   /\ raised' = TRUE
                   /\ is_valid' = "n/a"
                   /\ UNCHANGED <<reward, done>>
              ELSE IF move_trick
              THEN LET v == is_valid_command(post.room, post.pos, action)
                   IN  /\ raised' = FALSE
                       /\ is_valid' = v
                       /\ reward' = (IF v THEN r1 ELSE r1 - Penalty)
                       /\ done' = (IF v THEN d1 ELSE TRUE)
              ELSE /\ raised' = FALSE
                   /\ is_valid' = "n/a"
                   /\ reward' = r1
                   /\ done' = d1
  /\ spc' = "stepped"
  /\ UNCHANGED <<env_kind, action_type, cone_trick, move_trick, room_fixed>>
  /\ UNCHANGED <<pool_vars, disc_vars>>

StepNext == Step

StepSpecInit ==
  /\ StepInit
  /\ PoolIdle
  /\ DiscIdle

StepSpec == StepSpecInit /\ [][StepNext]_vars

(* ------------------------- claims: EnvWrapper.step --------------------- *)

\* the tile of the room at <<row, column>>
Tile(r, c) == room[r][c]

\* the verdict the claim gives for move m at the state's room and position,
\* written out per move: up is row - 1, down row + 1, left column - 1, right
\* column + 1; a pull also needs a box on the opposite side
ClaimedValid(m) ==
  LET r == player_position[1]
      c == player_position[2]
      box(t) == t = BOX \/ t = BOX_ON_TARGET
  IN  CASE m = PUSH_UP    -> Tile(r - 1, c) # WALL
        [] m = PUSH_DOWN  -> Tile(r + 1, c) # WALL
        [] m = PUSH_LEFT  -> Tile(r, c - 1) # WALL
        [] m = PUSH_RIGHT -> Tile(r, c + 1) # WALL
        [] m = PULL_UP    -> Tile(r - 1, c) # WALL /\ box(Tile(r + 1, c))
        [] m = PULL_DOWN  -> Tile(r + 1, c) # WALL /\ box(Tile(r - 1, c))
        [] m = PULL_LEFT  -> Tile(r, c - 1) # WALL /\ box(Tile(r, c + 1))
        [] m = PULL_RIGHT -> Tile(r, c + 1) # WALL /\ box(Tile(r, c - 1))

\* C5: for every room, every player position inside the border and each of the
\* 8 moves, is_valid_command is false exactly when the tile one step in the
\* move's direction is WALL, or the move is a pull and the tile one step the
\* other way is neither BOX nor BOX_ON_TARGET; a push's verdict does not read
\* the tile behind.  The verdict step() obtained is the same.
C5_ValidExactly ==
  env_kind = "sokoban" =>
    /\ \A m \in MoveType :
         is_valid_command(room, player_position, m) = ClaimedValid(m)
    /\ (spc = "stepped" /\ move_trick /\ ~raised) =>
         is_valid = ClaimedValid(env_action)

\* C5 witness: step() judged a pull move valid: a box behind the player and no
\* wall ahead
C5_Witness ==
  /\ spc = "stepped"
  /\ move_trick
  /\ env_action = PULL_RIGHT
  /\ is_valid = TRUE
  /\ Tile(player_position[1], player_position[2] - 1) \in BOX_TILES

\* C6 (as claimed): with the move rule on, step() subtracts the penalty and
\* forces done exactly when the encoded move is illegal, per is_valid_command,
\* on the room and player position at which the move is attempted (those
\* before the step), and otherwise returns the environment's reward and done.
C6_PenaltyIffIllegal ==
  [][ (spc = "ready" /\ spc' = "stepped" /\ move_trick /\ ~raised') =>
        LET legal == is_valid_command(room, player_position, env_action')
        IN  /\ reward' = (IF legal THEN env_reward' ELSE env_reward' - Penalty)
            /\ done' = (IF legal THEN env_done' ELSE TRUE) ]_vars

\* what step() returns is what the environment returned
Unshaped == reward = env_reward /\ done = env_done

\* the penalty was applied once and done forced
Penalised == reward = env_reward - Penalty /\ done = TRUE

\* C7 (as claimed): with the cone rule on, an observation x = 0.1, y = 0.4
\* leaves reward and done alone, and x = 0.05, y = 0.4 gets the penalty and
\* done = true.
C7_ConeScenario ==
  (spc = "stepped" /\ cone_trick) =>
    /\ obs = <<10, 40>> => Unshaped
    /\ obs = <<5, 40>> => Penalised

\* C7 (amended): with the cone rule on, neither x = 0.1, y = 0.4 nor x = 0.05,
\* y = 0.4 triggers the shaping (both angles, about 76 and 83 degrees, exceed
\* 45); the penalty is subtracted and done forced exactly when
\* 1/3 < y < abs(x), as for x = 0.5, y = 0.4.
C7_ConeRule ==
  (spc = "stepped" /\ cone_trick) =>
    /\ obs \in {<<10, 40>>, <<5, 40>>} => Unshaped
    /\ obs = <<50, 40>> => Penalised
    /\ LET x == obs[1]
           y == obs[2]
       IN  IF 3 * y > 100 /\ (y < x \/ y < 0 - x) THEN Penalised ELSE Unshaped

\* C7 witness: the cone rule is on, the observation was x = 0.05, y = 0.4, and
\* step() returned the environment's reward and done = false
C7_Witness ==
  /\ spc = "stepped"
  /\ cone_trick
  /\ obs = <<5, 40>>
  /\ reward = env_reward
  /\ done = FALSE

\* C9: step() hands the environment index + 1 under PUSH_ONLY, the index-th
\* element of (1,2,3,4,9,10,11,12) under PUSH_PULL, never a value in 5..8, and
\* the index itself under REGULAR.
C9_Encoding ==
  spc = "stepped" =>
    /\ action_type = "PUSH_ONLY" =>
         (action_in \in 0..3 /\ env_action = action_in + 1)
    /\ action_type = "PUSH_PULL" =>
         /\ action_in \in 0..7
         /\ env_action = <<1, 2, 3, 4, 9, 10, 11, 12>>[action_in + 1]
         /\ env_action \notin 5..8
    /\ action_type = "REGULAR" => env_action = action_in

\* C9 witness: under PUSH_PULL index 4 went to the environment as 9
C9_Witness ==
  /\ spc = "stepped"
  /\ action_type = "PUSH_PULL"
  /\ action_in = 4
  /\ env_action = 9

(* ------------- EnvWrapper.__init__, DISCRETIZIED; process_action ------- *)
\* The tables' entries are rationals; they are kept as integer numerators over
\* the common denominator denom, so that every step of torch.arange is exact.
\* torch computes in floating point: rounding is not modelled.

\* largest num_discrete explored
MaxDiscrete == 6
\* largest magnitude of the action space's bounds explored
MaxBound == 2

\* a // b for b > 0 and a >= 0
FloorDiv(a, b) == a \div b

\* ceil(a / b) for b > 0
CeilDiv(a, b) == (a + b - 1) \div b

\* torch.arange(start, end, step), step > 0: ceil((end - start) / step) entries
Arange(start, end, step) ==
  LET len == IF end > start THEN CeilDiv(end - start, step) ELSE 0
  IN  [i \in 1..len |-> start + (i - 1) * step]

\* the common denominator 2 * num_discrete * (num_discrete // 2)
Denom(n) == 2 * n * (IF FloorDiv(n, 2) = 0 THEN 1 ELSE FloorDiv(n, 2))

\* line 191: torch.arange(low, high, (high - low) / self.num_discrete)
PrimaryTable(lo, hi, n) ==
  Arange(lo * Denom(n), hi * Denom(n), ((hi - lo) * Denom(n)) \div n)

\* lines 192-194: torch.cat((a, b)) of the two half tables
SplitTable(lo, hi, n) ==
  LET h == FloorDiv(n, 2)
      a == Arange(lo * Denom(n), (lo * Denom(n)) \div 2,
                  (((0 - lo) * Denom(n)) \div 2) \div h)
      b == Arange((hi * Denom(n)) \div 2, hi * Denom(n),
                  ((hi * Denom(n)) \div 2) \div h)
  IN  a \o b

DiscInit ==
  /\ num_discrete \in 1..MaxDiscrete
  /\ low \in {0 - b : b \in 1..MaxBound}
  /\ high \in 1..MaxBound
  /\ env_name \in {"LunarLanderContinuous-v2", "other"}
  /\ denom = 1
  /\ discrete_array = <<>>
  /\ split_discrete_array = <<>>
  /\ dpc = "new"
  /\ action_idx = <<0, 0>>
  /\ index_error = FALSE

\* EnvWrapper.__init__, lines 185-194
Construct ==
  /\ dpc = "new"
  /\ denom' = Denom(num_discrete)
  /\ discrete_array' = PrimaryTable(low, high, num_discrete)
  /\ IF FloorDiv(num_discrete, 2) = 0
     THEN \* line 192 divides by num_discrete // 2 = 0: ZeroDivisionError
          /\ dpc' = "failed"
          /\ UNCHANGED split_discrete_array
     ELSE /\ dpc' = "built"
          /\ split_discrete_array' = SplitTable(low, high, num_discrete)
  /\ UNCHANGED <<num_discrete, low, high, env_name, action_idx, index_error>>
  /\ UNCHANGED <<pool_vars, step_vars>>

\* process_action, lines 252-257: one index per control dimension, each drawn
\* from a distribution over num_discrete buckets
ProcessAction ==
  /\ dpc = "built"
  /\ \E i0 \in 0..(num_discrete - 1) : \E i1 \in 0..(num_discrete - 1) :
       /\ action_idx' = <<i0, i1>>
       /\ index_error' =
            IF env_name = "LunarLanderContinuous-v2"
            THEN i0 + 1 > Len(discrete_array) \/ i1 + 1 > Len(split_discrete_array)
            ELSE i0 + 1 > Len(discrete_array) \/ i1 + 1 > Len(discrete_array)
  /\ UNCHANGED <<num_discrete, low, high, env_name, denom, discrete_array,
                 split_discrete_array, dpc>>
  /\ UNCHANGED <<pool_vars, step_vars>>

DiscNext ==
  \/ Construct
  \/ ProcessAction

DiscSpecInit ==
  /\ DiscInit
  /\ PoolIdle
  /\ StepIdle

DiscSpec == DiscSpecInit /\ [][DiscNext]_vars

(* --------------------- claims: discretization tables ------------------- *)

\* t has num_discrete entries, starts at low and is strictly increasing
WellFormedTable(t) ==
  /\ Len(t) = num_discrete
  /\ t[1] = low * denom
  /\ \A i \in 1..(Len(t) - 1) : t[i] < t[i + 1]

\* C8 (as claimed): for every num_discrete >= 1 and bounds low < 0 < high, each
\* table the constructor builds, primary and split, has exactly num_discrete
\* entries, starts at low and is strictly increasing, so every index in
\* 0 .. num_discrete - 1 selects an entry of either table.
C8_TablesWellFormed ==
  dpc = "built" =>
    /\ WellFormedTable(discrete_array)
    /\ WellFormedTable(split_discrete_array)
    /\ ~index_error

====
